---- MODULE Spec2Model ----
(***************************************************************************)
(* Verification model of the Instagram analysis agent:                     *)
(*   - the agent loop analyze_instagram_users (insta_agent.py),            *)
(*   - the session memory AgentMemory (memory.py), and                     *)
(*   - single calls of the perception and decision layers                  *)
(*     (perception.py, decision.py), observed in last_call.                *)
(*                                                                         *)
(* Representation.                                                         *)
(*   A text is a sequence of tokens (strings).  The markers THINKING:,     *)
(*   FUNCTION_CALL:, VERIFICATION:, FINAL_ANSWER:, the separator "|" and   *)
(*   the newline "NL" are tokens of their own; every other token is a word *)
(*   or a JSON literal.  json_loads decodes the JSON literals of JsonText  *)
(*   and fails on every other text.                                        *)
(*   A Python dict is a function from the keys it holds to their values,   *)
(*   so "k in d" is  k \in DOMAIN d.  engagement_rate and score are kept   *)
(*   in hundredths (3.0 is 300, 37.0 is 3700).                             *)
(***************************************************************************)
EXTENDS Integers, Sequences, FiniteSets, TLC

VARIABLES
    \* ---- analyze_instagram_users (insta_agent.py) ----
    pc,                 \* "loop" | "returned" | "raised"; "memory": the loop is not run
    usernames,          \* argument: the target identifiers
    max_iterations,     \* argument
    verbose,            \* argument
    iteration,          \* local: iteration index
    users_metrics_list, \* local: the working collection
    iteration_response, \* local: the transcript
    last_response,      \* local: "None" | "thinking" | "verification" | "result"
    llm_calls,          \* number of generate_content calls issued
    step,               \* what the last iteration did (branch, func_name)
    rank_runs,          \* number of times rank_users was executed by function_caller
    ranking_completed,  \* history: a ranking ran with every target processed and scored
    result,             \* the value returned by analyze_instagram_users
    exit_kind,          \* "none" | "final_answer" | "final_undecodable" | "budget"
    raised,             \* the exception that escaped, "none" if none
    \* ---- AgentMemory (memory.py) ----
    users_metrics,
    iteration_responses,
    processed_usernames,
    scored_users,
    metrics_passed,     \* identifiers that were passed to store_user_metrics
    \* ---- an observed call ----
    last_call           \* the call under observation: its arguments, the memory
                        \* before it, and what it returned (fn = "none": no call yet)

agentVars == <<pc, usernames, max_iterations, verbose, iteration, users_metrics_list,
               iteration_response, last_response, llm_calls, step, rank_runs,
               ranking_completed, result, exit_kind, raised>>
memVars == <<users_metrics, iteration_responses, processed_usernames, scored_users,
             metrics_passed>>
vars == <<agentVars, memVars, last_call>>

----------------------------------------------------------------------------
(* Bounds of the model *)

MaxIterations == 3
MaxListLen == 2
MaxTranscript == 1
MaxTextLen == 3
MaxRankLen == 3

Usernames == {"a", "b"}

\* no call is under observation
NoCall == [fn |-> "none"]

----------------------------------------------------------------------------
(* Text: str operations used by the agent *)

Min(a, b) == IF a < b THEN a ELSE b

StartsWith(t, m) == Len(t) >= 1 /\ t[1] = m

Contains(t, m) == \E i \in 1..Len(t) : t[i] = m

\* str.find: index of the first occurrence (0 when absent)
Find(t, m) ==
    IF Contains(t, m)
    THEN CHOOSE i \in 1..Len(t) : t[i] = m /\ \A j \in 1..(i-1) : t[j] # m
    ELSE 0

\* str.replace(m, ""): every occurrence is removed
Replace(t, m) == SelectSeq(t, LAMBDA x : x # m)

RECURSIVE LStrip(_)
LStrip(t) == IF t # <<>> /\ Head(t) = "NL" THEN LStrip(Tail(t)) ELSE t

RECURSIVE RStrip(_)
RStrip(t) ==
    IF t # <<>> /\ t[Len(t)] = "NL" THEN RStrip(SubSeq(t, 1, Len(t) - 1)) ELSE t

\* str.strip
Strip(t) == RStrip(LStrip(t))

\* text[i:]
From(t, i) == SubSeq(t, i, Len(t))

\* text.split("\n")[0]
FirstLine(t) == IF Contains(t, "NL") THEN SubSeq(t, 1, Find(t, "NL") - 1) ELSE t

\* a one-token text as a Python str ("" for the empty text)
StrOf(t) == IF t = <<>> THEN "" ELSE IF Len(t) = 1 THEN t[1] ELSE "<text>"

----------------------------------------------------------------------------
(* Records and JSON values *)

\* what the scraping client reports for an identifier
Profile(u) ==
    [username |-> u,
     followers_count |-> IF u = "a" THEN 5000 ELSE 120,
     following_count |-> 10,
     media_count |-> IF u = "a" THEN 20 ELSE 250,
     is_private |-> FALSE,
     is_verified |-> FALSE,
     engagement_rate |-> IF u = "a" THEN 300 ELSE 1250,
     profile_picture_url |-> "pic"]

\* the placeholder record of a failed fetch
Placeholder(u) ==
    [username |-> u,
     error |-> "Failed to retrieve user data",
     followers_count |-> 0,
     following_count |-> 0,
     media_count |-> 0,
     is_private |-> FALSE,
     is_verified |-> FALSE,
     engagement_rate |-> 0,
     profile_picture_url |-> ""]

\* d with d[k] = v (a dict item assignment)
SetKey(d, k, v) == [x \in (DOMAIN d) \cup {k} |-> IF x = k THEN v ELSE d[x]]

\* dict.get(k, default)
Get(d, k, default) == IF k \in DOMAIN d THEN d[k] ELSE default

JDict(d) == [t |-> "dict", d |-> d, l |-> <<>>]
JList(l) == [t |-> "list", d |-> <<>>, l |-> l]
JNum == [t |-> "num", d |-> <<>>, l |-> <<>>]
JStr == [t |-> "str", d |-> <<>>, l |-> <<>>]
JNone == [t |-> "none", d |-> <<>>, l |-> <<>>]

\* the outcome of a call: the value returned, or the exception raised
Ok(v) == [exc |-> "none", v |-> v]
Raise(e) == [exc |-> e, v |-> JNum]

\* the JSON literals the language model may emit, and what json.loads makes of them
JsonValue(tok) ==
    CASE tok = "J_a" -> JDict(Profile("a"))
      [] tok = "J_b" -> JDict(Profile("b"))
      [] tok = "J_a_scored" -> JDict(SetKey(Profile("a"), "score", 3700))
      [] tok = "J_b_scored" -> JDict(SetKey(Profile("b"), "score", 6048))
      [] tok = "J_a_error" -> JDict(Placeholder("a"))
      [] tok = "J_partial" -> JDict([username |-> "a"])
      [] tok = "J_nouser" -> JDict([followers_count |-> 5000, media_count |-> 20,
                                    engagement_rate |-> 300])
      [] tok = "J_list_empty" -> JList(<<>>)
      [] tok = "J_list_ab" -> JList(<<SetKey(Profile("a"), "score", 3700),
                                      SetKey(Profile("b"), "score", 6048)>>)
      [] tok = "J_list_b" -> JList(<<SetKey(Profile("b"), "score", 6048)>>)
      [] tok = "J_list_partial" -> JList(<<[username |-> "a"]>>)
      [] tok = "J_num" -> JNum
      [] OTHER -> JNum

JsonText == {"J_a", "J_b", "J_a_scored", "J_b_scored", "J_a_error", "J_partial",
             "J_nouser", "J_list_empty", "J_list_ab", "J_list_b", "J_list_partial",
             "J_num"}

\* the tokens that are written [ ... ], decodable or not
ArrayLiteral == {"J_list_empty", "J_list_ab", "J_list_b", "J_list_partial", "[oops]"}

\* json.loads(text)
json_loads(text) ==
    IF Len(text) = 1 /\ text[1] \in JsonText
    THEN Ok(JsonValue(text[1]))
    ELSE Raise("JSONDecodeError")

----------------------------------------------------------------------------
(* Scoring and ranking *)

\* round(x, 2) of the value n/10 hundredths (ties to even)
Round10(n) ==
    LET q == n \div 10
        r == n % 10
    IN  IF r < 5 THEN q
        ELSE IF r > 5 THEN q + 1
        ELSE IF q % 2 = 0 THEN q ELSE q + 1

\* the weighted score of a metrics dict, in hundredths
WeightedScore(d) ==
    LET followers_score == Min(10000, d.followers_count)
        engagement_score == Min(10000, d.engagement_rate * 10)
        media_score == Min(10000, d.media_count * 100)
    IN  Round10(4 * followers_score + 5 * engagement_score + 1 * media_score)

MetricKeys == {"followers_count", "engagement_rate", "media_count"}

\* insta_agent.calculate_user_score(metrics)
agent_calculate_user_score(metrics) ==
    IF metrics.t # "dict" THEN Raise("TypeError")
    ELSE IF "error" \in DOMAIN metrics.d THEN Ok(JNum)
    ELSE IF ~(MetricKeys \subseteq DOMAIN metrics.d) THEN Raise("KeyError")
    ELSE Ok(JDict(SetKey(metrics.d, "score", WeightedScore(metrics.d))))

\* sorted(..., key=score, reverse=True): a stable insertion of x into a sorted list
RECURSIVE InsertByScore(_, _)
InsertByScore(x, sorted) ==
    IF sorted = <<>> THEN <<x>>
    ELSE IF Get(Head(sorted), "score", 0) >= Get(x, "score", 0)
         THEN <<Head(sorted)>> \o InsertByScore(x, Tail(sorted))
         ELSE <<x>> \o sorted

RECURSIVE SortedByScore(_)
SortedByScore(l) ==
    IF l = <<>> THEN <<>>
    ELSE InsertByScore(l[Len(l)], SortedByScore(SubSeq(l, 1, Len(l) - 1)))

\* insta_agent.rank_users(users_list)
agent_rank_users(users_list) ==
    CASE users_list.t = "list" -> Ok(JList(SortedByScore(users_list.l)))
      [] users_list.t = "dict" ->
            IF DOMAIN users_list.d = {} THEN Ok(JList(<<>>)) ELSE Raise("AttributeError")
      [] OTHER -> Raise("TypeError")

----------------------------------------------------------------------------
(* Verification used by the agent loop *)

SchemaKeys == {"username", "followers_count", "following_count", "media_count",
               "is_private", "is_verified", "engagement_rate", "profile_picture_url"}

\* InstagramCardProfileSchema.model_validate(d) succeeds
SchemaValid(d) == SchemaKeys \subseteq DOMAIN d

\* positions where "FINAL_ANSWER: [" starts a match of the pattern
MatchStarts(content) ==
    {i \in 1..(Len(content) - 1) :
        content[i] = "FINAL_ANSWER:" /\ content[i + 1] \in ArrayLiteral}

\* re.search(r"FINAL_ANSWER: (\[.*\])", content, re.DOTALL).group(1):
\* from the leftmost match to the last closing bracket
MatchGroup(content) ==
    LET i == CHOOSE k \in MatchStarts(content) : \A m \in MatchStarts(content) : k <= m
        j == CHOOSE k \in (i + 1)..Len(content) :
                /\ content[k] \in ArrayLiteral
                /\ \A m \in (k + 1)..Len(content) : content[m] \notin ArrayLiteral
    IN  SubSeq(content, i + 1, j)

\* insta_agent.verify_the_json_output(content); ValidationError is not a name
\* of the module, so a failed validation ends in NameError
verify_the_json_output(content) ==
    IF MatchStarts(content) = {} THEN [exc |-> "none", v |-> FALSE]
    ELSE LET decoded == json_loads(MatchGroup(content))
         IN  IF decoded.exc # "none" THEN [exc |-> decoded.exc, v |-> FALSE]
             ELSE IF decoded.v.l # <<>> /\ SchemaValid(decoded.v.l[1])
                  THEN [exc |-> "none", v |-> TRUE]
                  ELSE [exc |-> "NameError", v |-> FALSE]

----------------------------------------------------------------------------
(* The agent loop: analyze_instagram_users *)

\* the replies the language model may give (response.text)
Replies ==
    {<<"THINKING:", "plan">>,
     <<"THINKING:", "plan", "NL", "FUNCTION_CALL:", "get_user_metrics", "|", "a", "NL">>,
     <<"VERIFICATION:", "check", "FUNCTION_CALL:", "rank_users", "|", "J_list_ab">>,
     <<"FUNCTION_CALL:", "rank_users">>,
     <<"FUNCTION_CALL:", "post_story", "|", "a">>,
     <<"VERIFICATION:", "looks", "fine">>,
     <<"hello">>}
    \cup {<<"FUNCTION_CALL:", "get_user_metrics", "|", u>> : u \in Usernames}
    \cup {<<"FUNCTION_CALL:", "calculate_user_score", "|", j>> :
            j \in {"J_a", "J_b", "J_a_error", "J_partial", "J_nouser", "a"}}
    \cup {<<"FUNCTION_CALL:", "rank_users", "|", j>> :
            j \in {"J_list_ab", "J_list_b", "J_list_empty", "J_list_partial", "J_num"}}
    \cup {<<"VERIFICATION:", "FINAL_ANSWER:", j>> :
            j \in {"J_list_ab", "J_list_partial", "J_list_empty", "[oops]"}}
    \cup {<<"FINAL_ANSWER:", j>> : j \in {"J_list_ab", "J_list_partial", "J_num", "oops"}}

\* the embedded-call test of the loop
Mixed(text) == Contains(text, "FUNCTION_CALL:") /\ ~StartsWith(text, "FUNCTION_CALL:")

\* function_call_line
FunctionCallLine(text) == Strip(FirstLine(From(text, Find(text, "FUNCTION_CALL:"))))

\* response_text after the embedded call was extracted
ResponseText(reply) ==
    LET text == Strip(reply) IN IF Mixed(text) THEN FunctionCallLine(text) ELSE text

Thought == [kind |-> "thought", iter |-> 0, func |-> ""]
Verified == [kind |-> "verified", iter |-> 0, func |-> ""]
Called(n, f) == [kind |-> "called", iter |-> n, func |-> f]

\* iteration_response after the embedded-call block: the note of a reply that
\* starts with THINKING: is appended
AfterMixed(reply) ==
    LET text == Strip(reply)
    IN  IF Mixed(text) /\ StartsWith(text, "THINKING:")
        THEN Append(iteration_response, Thought)
        ELSE iteration_response

\* InstagramTools.user_info_by_username: the metrics, or the placeholder of a failure
user_info_by_username(username, fetch_ok) ==
    IF fetch_ok THEN Profile(username) ELSE Placeholder(username)

\* function_caller(func_name, params)
function_caller(func_name, params, fetch_ok) ==
    CASE func_name = "get_user_metrics" ->
            Ok(JDict(user_info_by_username(StrOf(params), fetch_ok)))
      [] func_name = "calculate_user_score" ->
            LET m == json_loads(params)
            IN  IF m.exc # "none" THEN m ELSE agent_calculate_user_score(m.v)
      [] func_name = "rank_users" ->
            LET m == json_loads(params)
            IN  IF m.exc # "none" THEN m ELSE agent_rank_users(m.v)
      [] OTHER -> Ok(JStr)

HasUsername(d) == "username" \in DOMAIN d

\* the update of the matching records after calculate_user_score
MergeScore(list, res) ==
    IF list = <<>> THEN [exc |-> "none", l |-> list]
    ELSE IF ~HasUsername(list[1]) THEN [exc |-> "KeyError", l |-> list]
    ELSE IF res.t # "dict" THEN [exc |-> "TypeError", l |-> list]
    ELSE IF ~HasUsername(res.d) THEN [exc |-> "KeyError", l |-> list]
    ELSE IF \E i \in 1..Len(list) : ~HasUsername(list[i])
         THEN [exc |-> "KeyError", l |-> list]
    ELSE [exc |-> "none",
          l |-> [i \in 1..Len(list) |->
                    IF list[i].username = res.d.username THEN res.d ELSE list[i]]]

\* the merge of a function result into users_metrics_list
MergeResult(func_name, list, res) ==
    CASE func_name = "get_user_metrics" -> [exc |-> "none", l |-> Append(list, res.d)]
      [] func_name = "calculate_user_score" -> MergeScore(list, res)
      [] func_name = "rank_users" -> [exc |-> "none", l |-> res.l]
      [] OTHER -> [exc |-> "none", l |-> list]

\* the verbose listing of the final answer raises unless it is a list of dicts
\* that all carry a username
PrintableRanking(v) == v.t = "list" /\ \A i \in 1..Len(v.l) : HasUsername(v.l[i])

Escapes(exc, branch, f) ==
    /\ pc' = "raised"
    /\ raised' = exc
    /\ step' = [branch |-> branch, func_name |-> f]
    /\ UNCHANGED <<iteration, users_metrics_list, last_response, rank_runs,
                   ranking_completed, result, exit_kind>>

\* every target identifier has a record in the list, and that record has a score
AllTargetsScored(targets, list) ==
    \A i \in 1..Len(targets) :
        \E k \in 1..Len(list) :
            /\ HasUsername(list[k])
            /\ list[k].username = targets[i]
            /\ "score" \in DOMAIN list[k]

Returns(v, kind) ==
    /\ pc' = "returned"
    /\ result' = v
    /\ exit_kind' = kind
    /\ UNCHANGED <<iteration, users_metrics_list, last_response, rank_runs,
                   ranking_completed, raised>>

InLoop == pc = "loop" /\ iteration < max_iterations

\* generate_content raises (transport failure): nothing in the loop catches it
LLMRaises ==
    /\ InLoop
    /\ llm_calls' = llm_calls + 1
    /\ Escapes("LLMError", "llm_error", "")
    /\ UNCHANGED <<iteration_response, usernames, max_iterations, verbose, memVars, last_call>>

\* the reply is handled as THINKING
Thinking(reply) ==
    /\ InLoop
    /\ StartsWith(ResponseText(reply), "THINKING:")
    /\ llm_calls' = llm_calls + 1
    /\ iteration_response' = Append(AfterMixed(reply), Thought)
    /\ last_response' = "thinking"
    /\ iteration' = iteration + 1
    /\ step' = [branch |-> "thinking", func_name |-> ""]
    /\ UNCHANGED <<pc, users_metrics_list, rank_runs, ranking_completed, result,
                   exit_kind, raised,
                   usernames, max_iterations, verbose, memVars, last_call>>

\* the reply is handled as VERIFICATION
Verification(reply) ==
    /\ InLoop
    /\ StartsWith(ResponseText(reply), "VERIFICATION:")
    /\ llm_calls' = llm_calls + 1
    /\ LET verification_content == Strip(Replace(ResponseText(reply), "VERIFICATION:"))
           verification_result == verify_the_json_output(verification_content)
       IN  IF verification_result.exc # "none"
           THEN /\ Escapes(verification_result.exc, "verification", "")
                /\ iteration_response' = AfterMixed(reply)
           ELSE /\ iteration' = iteration + 1
                /\ IF verification_result.v
                   THEN /\ iteration_response' = Append(AfterMixed(reply), Verified)
                        /\ last_response' = "verification"
                        /\ step' = [branch |-> "verification_success", func_name |-> ""]
                   ELSE /\ iteration_response' = AfterMixed(reply)
                        /\ last_response' = last_response
                        /\ step' = [branch |-> "verification_failed", func_name |-> ""]
                /\ UNCHANGED <<pc, users_metrics_list, rank_runs, ranking_completed,
                               result, exit_kind, raised>>
    /\ UNCHANGED <<usernames, max_iterations, verbose, memVars, last_call>>

\* the reply is handled as FUNCTION_CALL
FunctionCall(reply, fetch_ok) ==
    /\ InLoop
    /\ StartsWith(ResponseText(reply), "FUNCTION_CALL:")
    /\ llm_calls' = llm_calls + 1
    /\ LET function_info == Tail(ResponseText(reply))
           bar == Find(function_info, "|")
           func_name == StrOf(Strip(SubSeq(function_info, 1, bar - 1)))
           params == Strip(From(function_info, bar + 1))
           iteration_result == function_caller(func_name, params, fetch_ok)
           merged == MergeResult(func_name, users_metrics_list, iteration_result.v)
       IN  IF bar = 0
           THEN /\ Escapes("ValueError", "function_call", "")
                /\ iteration_response' = AfterMixed(reply)
           ELSE IF iteration_result.exc # "none"
           THEN /\ Escapes(iteration_result.exc, "function_call", func_name)
                /\ iteration_response' = AfterMixed(reply)
           ELSE IF merged.exc # "none"
           THEN /\ Escapes(merged.exc, "function_call", func_name)
                /\ iteration_response' = AfterMixed(reply)
           ELSE /\ users_metrics_list' = merged.l
                /\ rank_runs' = IF func_name = "rank_users" THEN rank_runs + 1
                                ELSE rank_runs
                /\ ranking_completed' =
                       \/ ranking_completed
                       \/ /\ func_name = "rank_users"
                          /\ AllTargetsScored(usernames, merged.l)
                /\ last_response' = "result"
                /\ iteration_response' =
                       Append(AfterMixed(reply), Called(iteration + 1, func_name))
                /\ iteration' = iteration + 1
                /\ step' = [branch |-> "function_call", func_name |-> func_name]
                /\ UNCHANGED <<pc, result, exit_kind, raised>>
    /\ UNCHANGED <<usernames, max_iterations, verbose, memVars, last_call>>

\* the reply is handled as FINAL_ANSWER
FinalAnswer(reply) ==
    /\ InLoop
    /\ StartsWith(ResponseText(reply), "FINAL_ANSWER:")
    /\ llm_calls' = llm_calls + 1
    /\ iteration_response' = AfterMixed(reply)
    /\ step' = [branch |-> "final_answer", func_name |-> ""]
    /\ LET final_result == Strip(Replace(ResponseText(reply), "FINAL_ANSWER:"))
           ranked_users == json_loads(final_result)
       IN  IF ranked_users.exc # "none"
           THEN Returns(JList(users_metrics_list), "final_undecodable")
           ELSE IF verbose /\ ~PrintableRanking(ranked_users.v)
           THEN /\ pc' = "raised"
                /\ raised' = IF ranked_users.v.t = "list" THEN "KeyError" ELSE "TypeError"
                /\ UNCHANGED <<iteration, users_metrics_list, last_response, rank_runs,
                               ranking_completed, result, exit_kind>>
           ELSE Returns(ranked_users.v, "final_answer")
    /\ UNCHANGED <<usernames, max_iterations, verbose, memVars, last_call>>

\* the reply has none of the four formats
Unexpected(reply) ==
    /\ InLoop
    /\ LET text == ResponseText(reply)
       IN  /\ ~StartsWith(text, "THINKING:")
           /\ ~StartsWith(text, "VERIFICATION:")
           /\ ~StartsWith(text, "FUNCTION_CALL:")
           /\ ~StartsWith(text, "FINAL_ANSWER:")
    /\ llm_calls' = llm_calls + 1
    /\ iteration_response' = AfterMixed(reply)
    /\ iteration' = iteration + 1
    /\ step' = [branch |-> "unknown", func_name |-> ""]
    /\ UNCHANGED <<pc, users_metrics_list, last_response, rank_runs, ranking_completed,
                   result, exit_kind, raised, usernames, max_iterations, verbose,
                   memVars, last_call>>

\* a slip at the exit of the loop: a fresh empty list is returned
BudgetExhausted_ReturnsEmptyList ==
    /\ pc = "loop"
    /\ ~(iteration < max_iterations)
    /\ Returns(JList(<<>>), "budget")
    /\ UNCHANGED <<llm_calls, iteration_response, step, usernames, max_iterations,
                   verbose, memVars, last_call>>

\* the while condition fails: the current list is returned
BudgetExhausted ==
    /\ pc = "loop"
    /\ ~(iteration < max_iterations)
    /\ Returns(JList(users_metrics_list), "budget")
    /\ UNCHANGED <<llm_calls, iteration_response, step, usernames, max_iterations,
                   verbose, memVars, last_call>>

AgentNext ==
    \/ LLMRaises
    \/ \E reply \in Replies : Thinking(reply)
    \/ \E reply \in Replies : Verification(reply)
    \/ \E reply \in Replies, fetch_ok \in BOOLEAN : FunctionCall(reply, fetch_ok)
    \/ \E reply \in Replies : FinalAnswer(reply)
    \/ \E reply \in Replies : Unexpected(reply)
    \/ BudgetExhausted

\* the state at the first test of the while condition; the memory is not used
AgentInit ==
    /\ pc = "loop"
    /\ usernames = <<"a", "b">>
    /\ max_iterations \in 0..MaxIterations
    /\ verbose \in BOOLEAN
    /\ iteration = 0
    /\ users_metrics_list = <<>>
    /\ iteration_response = <<>>
    /\ last_response = "None"
    /\ llm_calls = 0
    /\ step = [branch |-> "none", func_name |-> ""]
    /\ rank_runs = 0
    /\ ranking_completed = FALSE
    /\ result = JNone
    /\ exit_kind = "none"
    /\ raised = "none"
    /\ users_metrics = <<>>
    /\ iteration_responses = <<>>
    /\ processed_usernames = {}
    /\ scored_users = {}
    /\ metrics_passed = {}
    /\ last_call = NoCall

\* the agent loop, for every argument and every sequence of replies
SpecAgent == AgentInit /\ [][AgentNext]_vars

----------------------------------------------------------------------------
(* Claims about the agent loop, checked under SpecAgent *)

\* an iteration of the loop that received a reply from the language model
IterationStep == llm_calls' = llm_calls + 1 /\ step'.branch # "llm_error"

\* C1: analyze always terminates by returning: the loop performs at most
\* max_iterations iterations, each issuing one language-model call, and each
\* iteration either returns or advances the iteration index by exactly one.
C1_EveryIterationReturnsOrAdvances ==
    /\ [](iteration <= max_iterations /\ llm_calls <= max_iterations)
    /\ [][IterationStep =>
            \/ pc' = "returned"
            \/ pc' = "loop" /\ iteration' = iteration + 1]_vars

\* C2: when the iteration budget is exhausted without a terminal reply, analyze
\* returns the working collection as it stands at that moment, and does not raise.
C2_BudgetReturnsCurrentList ==
    /\ (pc = "loop" /\ ~(iteration < max_iterations)) => ENABLED BudgetExhausted
    /\ exit_kind = "budget" =>
          /\ pc = "returned"
          /\ raised = "none"
          /\ iteration = max_iterations
          /\ result = JList(users_metrics_list)

\* C2 witness: a budget of one iteration is used up by a fetch, and the list
\* holding the fetched record is returned.
C2_Witness ==
    /\ exit_kind = "budget"
    /\ max_iterations = 1
    /\ llm_calls = 1
    /\ result.l # <<>>

\* C3: no reply text makes an exception escape analyze.
C3_NoReplyRaises == ~(pc = "raised" /\ raised # "LLMError")

\* a rank tool-invocation is the reply handled in this step
RankInvoked == IterationStep /\ step'.branch = "function_call"
                  /\ step'.func_name = "rank_users"

\* C4: a rank invocation is never executed while some target identifier is not
\* both processed and scored: it is skipped and the working collection is unchanged.
C4_RankSkippedUntilAllScored ==
    [][(RankInvoked /\ ~AllTargetsScored(usernames, users_metrics_list)) =>
            /\ rank_runs' = rank_runs
            /\ users_metrics_list' = users_metrics_list
            /\ pc' = "loop"]_vars

\* C5: once ranking has completed, every later rank invocation is skipped: the
\* ranking function is not executed and the working collection is not replaced.
C5_NoRankAfterRankingCompleted ==
    [][(RankInvoked /\ ranking_completed) =>
            /\ rank_runs' = rank_runs
            /\ users_metrics_list' = users_metrics_list
            /\ pc' = "loop"]_vars

\* C6: a successful check ends the loop in that iteration with the current
\* collection as the result; no further language-model call is made.
C6_VerifiedCheckTerminates ==
    [][(pc = "loop" /\ step.branch = "verification_success") =>
            /\ llm_calls' = llm_calls
            /\ pc' = "returned"
            /\ result' = JList(users_metrics_list)]_vars

\* C9: the working collection holds at most one record per identifier.
C9_OneRecordPerIdentifier ==
    \A i, j \in 1..Len(users_metrics_list) :
        (/\ i # j
         /\ HasUsername(users_metrics_list[i])
         /\ HasUsername(users_metrics_list[j]))
        => users_metrics_list[i].username # users_metrics_list[j].username

----------------------------------------------------------------------------
(* The session memory: AgentMemory *)

\* the records handed to the memory
MemRecords ==
    {Profile("a"), Profile("b"), SetKey(Profile("a"), "score", 3700),
     Placeholder("b"), [followers_count |-> 5000, media_count |-> 20,
                        engagement_rate |-> 300]}

MemScores == {3700, 0}

\* the lists handed to update_users_list
MemLists == UNION {[1..n -> MemRecords] : n \in 0..MaxListLen}

\* "not username": the key is missing (None) or the empty string
Falsy(d) == ~HasUsername(d) \/ d.username = ""

\* index of the first record of the list with this username (0 when none)
FirstIndexOf(list, username) ==
    IF \E i \in 1..Len(list) : Get(list[i], "username", "") = username
    THEN CHOOSE i \in 1..Len(list) :
            /\ Get(list[i], "username", "") = username
            /\ \A j \in 1..(i - 1) : Get(list[j], "username", "") # username
    ELSE 0

\* a store_user_metrics that takes the identifier out of the scored set when it
\* replaces the record
store_user_metrics_Unscores(metrics) ==
    /\ pc = "memory"
    /\ metrics_passed' = IF HasUsername(metrics)
                         THEN metrics_passed \cup {metrics.username}
                         ELSE metrics_passed
    /\ IF Falsy(metrics)
       THEN UNCHANGED <<users_metrics, processed_usernames, scored_users>>
       ELSE LET i == FirstIndexOf(users_metrics, metrics.username)
            IN  IF i # 0
                THEN /\ users_metrics' = [users_metrics EXCEPT ![i] = metrics]
                     /\ scored_users' = scored_users \ {metrics.username}
                     /\ UNCHANGED processed_usernames
                ELSE /\ users_metrics' = Append(users_metrics, metrics)
                     /\ processed_usernames' = processed_usernames \cup {metrics.username}
                     /\ UNCHANGED scored_users
    /\ UNCHANGED <<iteration_responses, agentVars>>

\* AgentMemory.store_user_metrics(metrics)
store_user_metrics(metrics) ==
    /\ pc = "memory"
    /\ metrics_passed' = IF HasUsername(metrics)
                         THEN metrics_passed \cup {metrics.username}
                         ELSE metrics_passed
    /\ IF Falsy(metrics)
       THEN UNCHANGED <<users_metrics, processed_usernames>>
       ELSE LET i == FirstIndexOf(users_metrics, metrics.username)
            IN  IF i # 0
                THEN /\ users_metrics' = [users_metrics EXCEPT ![i] = metrics]
                     /\ UNCHANGED processed_usernames
                ELSE /\ users_metrics' = Append(users_metrics, metrics)
                     /\ processed_usernames' = processed_usernames \cup {metrics.username}
    /\ UNCHANGED <<iteration_responses, scored_users, agentVars>>

\* a store_user_score that makes up a record for an identifier it does not find
store_user_score_FabricatesRecord(username, score) ==
    /\ pc = "memory"
    /\ LET i == FirstIndexOf(users_metrics, username)
       IN  IF i # 0
           THEN users_metrics' =
                    [users_metrics EXCEPT ![i] = SetKey(users_metrics[i], "score", score)]
           ELSE users_metrics' =
                    Append(users_metrics, [username |-> username, score |-> score])
    /\ scored_users' = scored_users \cup {username}
    /\ UNCHANGED <<iteration_responses, processed_usernames, metrics_passed, agentVars>>

\* AgentMemory.store_user_score(username, score)
store_user_score(username, score) ==
    /\ pc = "memory"
    /\ LET i == FirstIndexOf(users_metrics, username)
       IN  IF i # 0
           THEN /\ users_metrics' =
                       [users_metrics EXCEPT ![i] = SetKey(users_metrics[i], "score", score)]
                /\ scored_users' = scored_users \cup {username}
           ELSE UNCHANGED <<users_metrics, scored_users>>
    /\ UNCHANGED <<iteration_responses, processed_usernames, metrics_passed, agentVars>>

\* an update_users_list that also starts the scored set afresh
update_users_list_ResetsScored(users_list) ==
    /\ pc = "memory"
    /\ users_metrics' = users_list
    /\ scored_users' = {}
    /\ UNCHANGED <<iteration_responses, processed_usernames, metrics_passed, agentVars>>

\* AgentMemory.update_users_list(users_list)
update_users_list(users_list) ==
    /\ pc = "memory"
    /\ users_metrics' = users_list
    /\ UNCHANGED <<iteration_responses, processed_usernames, scored_users,
                   metrics_passed, agentVars>>

\* AgentMemory.add_iteration_response(response)
add_iteration_response(response) ==
    /\ pc = "memory"
    /\ Len(iteration_responses) < MaxTranscript
    /\ iteration_responses' = Append(iteration_responses, response)
    /\ UNCHANGED <<users_metrics, processed_usernames, scored_users, metrics_passed,
                   agentVars>>

\* AgentMemory.get_user_metrics(username): the record, or None
memory_get_user_metrics(username) ==
    LET i == FirstIndexOf(users_metrics, username)
    IN  IF i # 0 THEN [found |-> TRUE, d |-> users_metrics[i]]
        ELSE [found |-> FALSE, d |-> <<>>]

\* AgentMemory.all_users_processed(all_usernames)
all_users_processed(all_usernames) ==
    \A i \in 1..Len(all_usernames) : all_usernames[i] \in processed_usernames

\* the target lists all_users_processed is asked about
TargetLists == {<<>>, <<"a">>, <<"b">>, <<"a", "b">>}

MemNext ==
    \/ \E metrics \in MemRecords :
            store_user_metrics(metrics) /\ UNCHANGED last_call
    \/ \E username \in Usernames, score \in MemScores :
            store_user_score(username, score) /\ UNCHANGED last_call
    \/ \E users_list \in MemLists :
            update_users_list(users_list) /\ UNCHANGED last_call
    \/ \E response \in {"line"} :
            add_iteration_response(response) /\ UNCHANGED last_call

\* AgentMemory.__init__; the agent loop is not running
MemInit ==
    /\ users_metrics = <<>>
    /\ iteration_responses = <<>>
    /\ processed_usernames = {}
    /\ scored_users = {}
    /\ metrics_passed = {}
    /\ last_call = NoCall
    /\ pc = "memory"
    /\ usernames = <<"a", "b">>
    /\ max_iterations = 0
    /\ verbose = FALSE
    /\ iteration = 0
    /\ users_metrics_list = <<>>
    /\ iteration_response = <<>>
    /\ last_response = "None"
    /\ llm_calls = 0
    /\ step = [branch |-> "none", func_name |-> ""]
    /\ rank_runs = 0
    /\ ranking_completed = FALSE
    /\ result = JNone
    /\ exit_kind = "none"
    /\ raised = "none"

\* every sequence of memory operations on a fresh memory
SpecMem == MemInit /\ [][MemNext]_vars

----------------------------------------------------------------------------
(* Claims about the session memory, checked under SpecMem *)

\* C7: after any sequence of memory operations the scored set is a subset of
\* the processed set.
C7_ScoredSubsetOfProcessed == scored_users \subseteq processed_usernames

\* C8: every identifier of the scored set has a record in the working
\* collection whose score field is present.
C8_ScoredRecordsCarryScore ==
    \A u \in scored_users :
        \E k \in 1..Len(users_metrics) :
            /\ Get(users_metrics[k], "username", "") = u
            /\ "score" \in DOMAIN users_metrics[k]

\* C10: all_users_processed(T) is true if and only if every identifier of T was
\* passed to store_user_metrics earlier in the session.
C10_AllProcessedIffPassed ==
    \A T \in TargetLists :
        all_users_processed(T) <=> (\A i \in 1..Len(T) : T[i] \in metrics_passed)

----------------------------------------------------------------------------
(* Records stay in the working collection *)

\* the list holds a record of this identifier
HasRecord(list, username) ==
    \E k \in 1..Len(list) : Get(list[k], "username", "") = username

\* C11: a record that has entered the working collection is never removed:
\* an identifier with a record before a step still has one after it.
C11_RecordsNeverRemoved ==
    [][\A u \in Usernames :
          HasRecord(users_metrics_list, u) => HasRecord(users_metrics_list', u)]_vars

----------------------------------------------------------------------------
(* Observed calls of the memory operations *)

\* the memory as a call finds it
Memory ==
    [users_metrics |-> users_metrics,
     iteration_responses |-> iteration_responses,
     processed_usernames |-> processed_usernames,
     scored_users |-> scored_users]

\* the memory apart from the working collection
MemoryButList ==
    [iteration_responses |-> iteration_responses,
     processed_usernames |-> processed_usernames,
     scored_users |-> scored_users]

\* memory.store_user_score(username, score), observed
Call_store_user_score(username, score) ==
    /\ store_user_score(username, score)
    /\ last_call' = [fn |-> "store_user_score", username |-> username, score |-> score,
                     before |-> Memory]

\* memory.update_users_list(users_list), observed
Call_update_users_list(users_list) ==
    /\ update_users_list(users_list)
    /\ last_call' = [fn |-> "update_users_list", users_list |-> users_list,
                     before |-> MemoryButList]

----------------------------------------------------------------------------
(* The perception layer: parse_llm_response *)

\* the models of a parsed reply; the fields a model does not have are empty
ThinkingResponse(content) ==
    [type |-> "thinking", content |-> content, function |-> <<>>, params |-> <<>>,
     thinking |-> <<>>, function_call |-> <<>>]
FunctionCallResponse(function, params) ==
    [type |-> "function_call", content |-> <<>>, function |-> function,
     params |-> params, thinking |-> <<>>, function_call |-> <<>>]
VerificationResponse(content) ==
    [type |-> "verification", content |-> content, function |-> <<>>, params |-> <<>>,
     thinking |-> <<>>, function_call |-> <<>>]
FinalAnswerResponse(content) ==
    [type |-> "final_answer", content |-> content, function |-> <<>>, params |-> <<>>,
     thinking |-> <<>>, function_call |-> <<>>]
MixedResponse(thinking, function_call) ==
    [type |-> "mixed", content |-> <<>>, function |-> <<>>, params |-> <<>>,
     thinking |-> thinking, function_call |-> function_call]
ErrorResponse(content) ==
    [type |-> "error", content |-> content, function |-> <<>>, params |-> <<>>,
     thinking |-> <<>>, function_call |-> <<>>]
UnknownResponse(content) ==
    [type |-> "unknown", content |-> content, function |-> <<>>, params |-> <<>>,
     thinking |-> <<>>, function_call |-> <<>>]

\* a parse that goes by the leading marker alone
parse_llm_response_LeadingMarkerOnly(text) ==
    LET response_text == Strip(text)
        function_info == Strip(Replace(response_text, "FUNCTION_CALL:"))
        bar == Find(function_info, "|")
    IN  CASE StartsWith(response_text, "THINKING:") ->
                ThinkingResponse(Strip(Replace(response_text, "THINKING:")))
          [] StartsWith(response_text, "FUNCTION_CALL:") ->
                IF bar = 0
                THEN FunctionCallResponse(Strip(function_info), <<>>)
                ELSE FunctionCallResponse(Strip(SubSeq(function_info, 1, bar - 1)),
                                          Strip(From(function_info, bar + 1)))
          [] StartsWith(response_text, "VERIFICATION:") ->
                VerificationResponse(Strip(Replace(response_text, "VERIFICATION:")))
          [] StartsWith(response_text, "FINAL_ANSWER:") ->
                FinalAnswerResponse(Strip(Replace(response_text, "FINAL_ANSWER:")))
          [] OTHER -> UnknownResponse(response_text)

\* parse_llm_response(response_text)
parse_llm_response(text) ==
    LET stripped == Strip(text)
        function_call_line == FunctionCallLine(stripped)
    IN  IF Mixed(stripped) /\ StartsWith(stripped, "THINKING:")
        THEN MixedResponse(
                Strip(Replace(SubSeq(stripped, 1, Find(stripped, "FUNCTION_CALL:") - 1),
                              "THINKING:")),
                Strip(Replace(function_call_line, "FUNCTION_CALL:")))
        ELSE LET response_text == IF Mixed(stripped) THEN function_call_line ELSE stripped
                 function_info == Strip(Replace(response_text, "FUNCTION_CALL:"))
                 bar == Find(function_info, "|")
             IN  CASE StartsWith(response_text, "THINKING:") ->
                        ThinkingResponse(Strip(Replace(response_text, "THINKING:")))
                   [] StartsWith(response_text, "FUNCTION_CALL:") ->
                        IF bar = 0
                        THEN FunctionCallResponse(Strip(function_info), <<>>)
                        ELSE FunctionCallResponse(
                                Strip(SubSeq(function_info, 1, bar - 1)),
                                Strip(From(function_info, bar + 1)))
                   [] StartsWith(response_text, "VERIFICATION:") ->
                        VerificationResponse(Strip(Replace(response_text, "VERIFICATION:")))
                   [] StartsWith(response_text, "FINAL_ANSWER:") ->
                        FinalAnswerResponse(Strip(Replace(response_text, "FINAL_ANSWER:")))
                   [] OTHER -> UnknownResponse(response_text)

----------------------------------------------------------------------------
(* The decision layer: verify_json_output and determine_next_action *)

\* a verifier that takes a failed validation of the first element for a success
verify_json_output_FailsOpen(content) ==
    IF MatchStarts(content) = {} THEN Ok(FALSE)
    ELSE LET decoded == json_loads(MatchGroup(content))
         IN  IF decoded.exc # "none" THEN Ok(FALSE)
             ELSE IF decoded.v.l = <<>> THEN Ok(FALSE)
             ELSE Ok(TRUE)

\* decision.verify_json_output(content): the JSONDecodeError of json.loads and
\* every exception of the validation (the IndexError of an empty array too) are
\* caught and answered with False
verify_json_output(content) ==
    IF MatchStarts(content) = {} THEN Ok(FALSE)
    ELSE LET decoded == json_loads(MatchGroup(content))
         IN  IF decoded.exc = "JSONDecodeError" THEN Ok(FALSE)
             ELSE IF decoded.exc # "none" THEN [exc |-> decoded.exc, v |-> FALSE]
             ELSE IF decoded.v.l = <<>> THEN Ok(FALSE)
             ELSE IF SchemaValid(decoded.v.l[1]) THEN Ok(TRUE)
             ELSE Ok(FALSE)

\* the params of a FunctionCallActionParams (typed Any): a str or a dict
PStr(text) == [t |-> "str", s |-> text, d |-> <<>>]
PDict(d) == [t |-> "dict", s |-> <<>>, d |-> d]
PNone == [t |-> "none", s |-> <<>>, d |-> <<>>]

\* DecisionOutput(action_type, action_params): the fields the params model
\* declares; a keyword the model does not declare (thinking, success, content
\* of FinalAnswerActionParams) is dropped by the model
DecisionOutput(action_type, function, params, content, ranked_users) ==
    [exc |-> "none", action_type |-> action_type, function |-> function,
     params |-> params, content |-> content, ranked_users |-> ranked_users]

\* an exception leaves determine_next_action
DecisionRaises(exc) ==
    [exc |-> exc, action_type |-> "", function |-> <<>>, params |-> PNone,
     content |-> <<>>, ranked_users |-> JNone]

\* the fixed notes of determine_next_action
AlreadyHasMetricsAndScore == <<"already", "has", "metrics", "and", "score">>
UnknownResponseType == <<"unknown", "response", "type">>

\* text.split("|")[0]
SplitFirst(text) ==
    IF Contains(text, "|") THEN SubSeq(text, 1, Find(text, "|") - 1) ELSE text

\* text.split("|")[1], for a text that holds a "|"
SplitSecond(text) == SplitFirst(From(text, Find(text, "|") + 1))

\* the content without the backticks around it (the token BACKTICK)
Unwrapped(raw) ==
    IF StartsWith(raw, "BACKTICK") /\ raw[Len(raw)] = "BACKTICK"
    THEN SubSeq(raw, 2, Len(raw) - 1)
    ELSE raw

\* the final_answer branch: json.loads, then FinalAnswerActionParams, whose
\* ranked_users must be a list of dicts; only JSONDecodeError is caught
FinalAnswerDecision(perception_response) ==
    LET raw == perception_response.content
        ranked_users == json_loads(Unwrapped(raw))
    IN  IF ranked_users.exc = "JSONDecodeError"
        THEN DecisionOutput("verification_failed", <<>>, PNone, raw, JNone)
        ELSE IF ranked_users.exc # "none" THEN DecisionRaises(ranked_users.exc)
        ELSE IF ranked_users.v.t # "list" THEN DecisionRaises("ValidationError")
        ELSE DecisionOutput("final_answer", <<>>, PNone, <<>>, ranked_users.v)

\* a decision without the processed-set guard: every call is passed through
determine_next_action_GuardsNothing(perception_response) ==
    IF perception_response.type = "function_call"
    THEN DecisionOutput("function_call", perception_response.function,
                        PStr(perception_response.params), <<>>, JNone)
    ELSE DecisionOutput("thinking", <<>>, PNone, perception_response.content, JNone)

\* determine_next_action(perception_response, memory, usernames)
determine_next_action(perception_response) ==
    CASE perception_response.type = "function_call" ->
            LET function_name == perception_response.function
                params == perception_response.params
                username == StrOf(params)
                user_metrics == memory_get_user_metrics(username)
            IN  IF function_name = <<"get_user_metrics">>
                   /\ username \in processed_usernames
                THEN IF username \notin scored_users /\ user_metrics.found
                     THEN DecisionOutput("function_call", <<"calculate_user_score">>,
                                         PDict(user_metrics.d), <<>>, JNone)
                     ELSE DecisionOutput("thinking", <<>>, PNone,
                                         AlreadyHasMetricsAndScore, JNone)
                ELSE DecisionOutput("function_call", function_name, PStr(params),
                                    <<>>, JNone)
      [] perception_response.type = "thinking" ->
            DecisionOutput("thinking", <<>>, PNone, perception_response.content, JNone)
      [] perception_response.type = "verification" ->
            LET verification_success == verify_json_output(perception_response.content)
            IN  IF verification_success.exc # "none"
                THEN DecisionRaises(verification_success.exc)
                ELSE DecisionOutput(IF verification_success.v
                                    THEN "verification_success"
                                    ELSE "verification_failed",
                                    <<>>, PNone, perception_response.content, JNone)
      [] perception_response.type = "final_answer" ->
            FinalAnswerDecision(perception_response)
      [] perception_response.type = "mixed" ->
            DecisionOutput("mixed",
                           Strip(SplitFirst(perception_response.function_call)),
                           IF Contains(perception_response.function_call, "|")
                           THEN PStr(Strip(SplitSecond(perception_response.function_call)))
                           ELSE PStr(<<>>),
                           <<>>, JNone)
      [] OTHER ->
            DecisionOutput("thinking", <<>>, PNone, UnknownResponseType, JNone)

----------------------------------------------------------------------------
(* Observed calls of the perception and decision layers *)

\* a decision that notes the identifier it was asked about as scored
Call_determine_next_action_MarksScored(perception_response) ==
    /\ pc = "memory"
    /\ last_call' = [fn |-> "determine_next_action",
                     perception_response |-> perception_response,
                     before |-> Memory,
                     out |-> determine_next_action(perception_response)]
    /\ scored_users' = scored_users \cup {StrOf(perception_response.params)}
    /\ UNCHANGED <<users_metrics, iteration_responses, processed_usernames,
                   metrics_passed, agentVars>>

\* determine_next_action(perception_response, memory, usernames), observed
Call_determine_next_action(perception_response) ==
    /\ pc = "memory"
    /\ last_call' = [fn |-> "determine_next_action",
                     perception_response |-> perception_response,
                     before |-> Memory,
                     out |-> determine_next_action(perception_response)]
    /\ UNCHANGED <<memVars, agentVars>>

\* parse_llm_response(response_text), observed
Call_parse_llm_response(response_text) ==
    /\ pc = "memory"
    /\ last_call' = [fn |-> "parse_llm_response", response_text |-> response_text,
                     out |-> parse_llm_response(response_text)]
    /\ UNCHANGED <<memVars, agentVars>>

\* verify_json_output(content), observed
Call_verify_json_output(content) ==
    /\ pc = "memory"
    /\ last_call' = [fn |-> "verify_json_output", content |-> content,
                     out |-> verify_json_output(content)]
    /\ UNCHANGED <<memVars, agentVars>>

\* the parsed replies the decision is asked about in a used memory
MemoryIntents ==
    {FunctionCallResponse(<<"get_user_metrics">>, <<u>>) : u \in Usernames}
    \cup {MixedResponse(<<"plan">>, <<"get_user_metrics", "|", u>>) : u \in Usernames}
    \cup {FunctionCallResponse(<<"calculate_user_score">>, <<"J_a">>),
          MixedResponse(<<"plan">>, <<"rank_users">>),
          ThinkingResponse(<<"plan">>)}

\* any sequence of memory operations, then one observed call on that memory;
\* nothing follows the observed call
CallNext ==
    \/ last_call = NoCall /\ MemNext
    \/ /\ last_call = NoCall
       /\ \E username \in Usernames, score \in MemScores :
                Call_store_user_score(username, score)
    \/ /\ last_call = NoCall
       /\ \E users_list \in MemLists : Call_update_users_list(users_list)
    \/ /\ last_call = NoCall
       /\ \E perception_response \in MemoryIntents :
                Call_determine_next_action(perception_response)

SpecCall == MemInit /\ [][CallNext]_vars

\* the tokens of the texts handed to the perception and decision layers
TextTokens ==
    {"THINKING:", "FUNCTION_CALL:", "VERIFICATION:", "FINAL_ANSWER:", "|", "NL", "a",
     "BACKTICK", "J_list_ab", "J_list_partial", "J_list_empty", "[oops]", "J_num"}

\* the texts of n tokens
Texts(n) == [1..n -> TextTokens]

\* the parsed replies that carry the text c
TextIntents(c) ==
    {ThinkingResponse(c), VerificationResponse(c), FinalAnswerResponse(c),
     ErrorResponse(c), UnknownResponse(c), MixedResponse(<<"plan">>, c)}

\* one observed call on a text, the memory being fresh; nothing follows it
TextNext ==
    \/ /\ last_call = NoCall
       /\ \E n \in 0..MaxTextLen : \E response_text \in Texts(n) :
                Call_parse_llm_response(response_text)
    \/ /\ last_call = NoCall
       /\ \E n \in 0..MaxTextLen : \E content \in Texts(n) :
                Call_verify_json_output(content)
    \/ /\ last_call = NoCall
       /\ \E n \in 0..MaxTextLen : \E c \in Texts(n) :
            \E perception_response \in TextIntents(c) :
                Call_determine_next_action(perception_response)

SpecText == MemInit /\ [][TextNext]_vars

----------------------------------------------------------------------------
(* Claims about single calls, checked under SpecCall and SpecText *)

\* C12: store_user_score on an identifier that has no record is a no-op: the
\* working collection, the processed set, the scored set and the transcript
\* are as before the call, and no record was created.
C12_ScoreOfUnknownIsNoOp ==
    (/\ last_call.fn = "store_user_score"
     /\ ~HasRecord(last_call.before.users_metrics, last_call.username))
    => /\ Memory = last_call.before
       /\ ~HasRecord(users_metrics, last_call.username)

\* a score was stored for an identifier without a record in a used memory
C12_Witness ==
    /\ last_call.fn = "store_user_score"
    /\ ~HasRecord(last_call.before.users_metrics, last_call.username)
    /\ last_call.before.users_metrics # <<>>
    /\ last_call.before.scored_users # {}
    /\ last_call.username \in last_call.before.processed_usernames

\* C13: update_users_list changes only the working collection: the processed
\* set, the scored set and the transcript are as before the call, whatever the
\* argument list.
C13_ReplaceAllFrame ==
    last_call.fn = "update_users_list"
    => /\ processed_usernames = last_call.before.processed_usernames
       /\ scored_users = last_call.before.scored_users
       /\ iteration_responses = last_call.before.iteration_responses

\* the list was replaced by the empty list while the sets and the transcript
\* were not empty
C13_Witness ==
    /\ last_call.fn = "update_users_list"
    /\ users_metrics = last_call.users_list
    /\ users_metrics = <<>>
    /\ last_call.before.processed_usernames # {}
    /\ last_call.before.scored_users # {}
    /\ last_call.before.iteration_responses # <<>>

\* the observed call is a decision on a plain get_user_metrics call
PlainFetchDecision ==
    /\ last_call.fn = "determine_next_action"
    /\ last_call.perception_response.type = "function_call"
    /\ last_call.perception_response.function = <<"get_user_metrics">>

\* C14: the decision on a plain get_user_metrics call for an identifier that is
\* in the processed set and in the scored set is a thinking output, never a
\* get_user_metrics invocation.
C14_ProcessedAndScoredGetsNote ==
    (/\ PlainFetchDecision
     /\ StrOf(last_call.perception_response.params)
            \in last_call.before.processed_usernames \cap last_call.before.scored_users)
    => /\ last_call.out.exc = "none"
       /\ last_call.out.action_type = "thinking"

\* such a decision was taken and answered with a note
C14_Witness ==
    /\ PlainFetchDecision
    /\ StrOf(last_call.perception_response.params)
            \in last_call.before.processed_usernames \cap last_call.before.scored_users
    /\ last_call.out.action_type = "thinking"

\* C15: the decision on a get_user_metrics call for an identifier that is in
\* the processed set and whose record has no score is a calculate_user_score
\* invocation whose params are that record, in every reachable memory.
C15_UnscoredRecordRedirectsToScore ==
    \A u \in Usernames :
        (/\ PlainFetchDecision
         /\ last_call.perception_response.params = <<u>>
         /\ u \in last_call.before.processed_usernames
         /\ HasRecord(last_call.before.users_metrics, u)
         /\ "score" \notin DOMAIN last_call.before.users_metrics[
                                FirstIndexOf(last_call.before.users_metrics, u)])
        => /\ last_call.out.action_type = "function_call"
           /\ last_call.out.function = <<"calculate_user_score">>
           /\ last_call.out.params =
                PDict(last_call.before.users_metrics[
                        FirstIndexOf(last_call.before.users_metrics, u)])

\* C16: for no parsed reply, plain call or mixed, is the decision a
\* get_user_metrics invocation for an identifier of the processed set.
C16_NoRefetchOfProcessed ==
    last_call.fn = "determine_next_action"
    => ~(/\ last_call.out.action_type \in {"function_call", "mixed"}
         /\ last_call.out.function = <<"get_user_metrics">>
         /\ StrOf(last_call.out.params.s) \in last_call.before.processed_usernames)

\* C17: the decision on a final_answer never raises: it is a final_answer
\* output with the decoded list exactly when the content decodes to a list,
\* and verification_failed in every other case.
C17_FinalAnswerNeverRaises ==
    (/\ last_call.fn = "determine_next_action"
     /\ last_call.perception_response.type = "final_answer")
    => LET decoded == json_loads(Unwrapped(last_call.perception_response.content))
       IN  /\ last_call.out.exc = "none"
           /\ IF decoded.exc = "none" /\ decoded.v.t = "list"
              THEN /\ last_call.out.action_type = "final_answer"
                   /\ last_call.out.ranked_users = decoded.v
              ELSE last_call.out.action_type = "verification_failed"

\* the content holds FINAL_ANSWER: followed by an array that decodes to a list
\* whose first element has every field of the schema
VerifiableArray(content) ==
    /\ \E i \in 1..(Len(content) - 1) :
            content[i] = "FINAL_ANSWER:" /\ content[i + 1] \in ArrayLiteral
    /\ LET array == json_loads(MatchGroup(content))
       IN  /\ array.exc = "none"
           /\ array.v.t = "list"
           /\ Len(array.v.l) >= 1
           /\ SchemaKeys \subseteq DOMAIN array.v.l[1]

\* C18: verify_json_output answers True if and only if the content holds a
\* FINAL_ANSWER:-prefixed array that decodes and whose first element validates;
\* in every other case it answers False, and it never raises.
C18_VerifierSuccessIffValid ==
    last_call.fn = "verify_json_output"
    => /\ last_call.out.exc = "none"
       /\ last_call.out.v <=> VerifiableArray(last_call.content)

\* the verifier answered False for a decodable array whose first element does
\* not validate
C18_Witness ==
    /\ last_call.fn = "verify_json_output"
    /\ last_call.content = <<"a", "FINAL_ANSWER:", "J_list_partial">>
    /\ last_call.out = Ok(FALSE)

\* C20: a text that starts with FINAL_ANSWER: is parsed to a final_answer whose
\* content is the text after that leading marker, trimmed and otherwise intact.
C20_FinalAnswerContentIntact ==
    (/\ last_call.fn = "parse_llm_response"
     /\ StartsWith(Strip(last_call.response_text), "FINAL_ANSWER:"))
    => /\ last_call.out.type = "final_answer"
       /\ last_call.out.content = Strip(Tail(Strip(last_call.response_text)))

----------------------------------------------------------------------------
(* Verification in the agent loop, checked under SpecAgent *)

\* the VERIFICATION replies whose embedded array decodes and has a first
\* element that does not validate
InvalidFirstReplies ==
    {reply \in Replies :
        /\ StartsWith(ResponseText(reply), "VERIFICATION:")
        /\ LET content == Strip(Replace(ResponseText(reply), "VERIFICATION:"))
           IN  /\ MatchStarts(content) # {}
               /\ LET array == json_loads(MatchGroup(content))
                  IN  /\ array.exc = "none"
                      /\ array.v.l # <<>>
                      /\ ~SchemaValid(array.v.l[1])}

\* C19: a VERIFICATION reply whose array has a first element that fails the
\* validation is handled as a failed check: the step reports failure and the
\* loop goes on, nothing is raised.
C19_LoopVerificationFailsClosed ==
    [][\A reply \in InvalidFirstReplies :
          Verification(reply) => (pc' = "loop" /\ step'.branch = "verification_failed")]_vars

----------------------------------------------------------------------------
(* A failing language model, checked under SpecAgent *)

\* C21: a failure of the language-model call does not end the session: the
\* loop takes it as an iteration and goes on, nothing is raised.
C21_LLMFailureContinues ==
    [][LLMRaises => (pc' = "loop" /\ raised' = "none" /\ iteration' = iteration + 1)]_vars

----------------------------------------------------------------------------
(* The composite rule, checked under SpecText *)

\* the observed call is a parse of a text that holds FUNCTION_CALL: after its
\* first token
EmbeddedCallParsed ==
    /\ last_call.fn = "parse_llm_response"
    /\ Contains(Strip(last_call.response_text), "FUNCTION_CALL:")
    /\ ~StartsWith(Strip(last_call.response_text), "FUNCTION_CALL:")

\* C27: the composite rule comes first: a text that starts with THINKING: and
\* holds FUNCTION_CALL: later is parsed to a mixed reply (the note before the
\* marker, the call after it); any other text that holds FUNCTION_CALL: after
\* its start is parsed as the call that starts at that marker, also when the
\* text starts with VERIFICATION: or FINAL_ANSWER:.
C27_CompositeRuleFirst ==
    EmbeddedCallParsed
    => LET text == Strip(last_call.response_text)
           at == Find(text, "FUNCTION_CALL:")
           call == Strip(FirstLine(From(text, at)))
           plain == parse_llm_response(call)
       IN  /\ plain.type = "function_call"
           /\ IF StartsWith(text, "THINKING:")
              THEN /\ last_call.out.type = "mixed"
                   /\ last_call.out.thinking =
                        Strip(SelectSeq(SubSeq(text, 1, at - 1),
                                        LAMBDA x : x # "THINKING:"))
                   /\ parse_llm_response(<<"FUNCTION_CALL:">> \o last_call.out.function_call)
                        = plain
              ELSE last_call.out = plain

\* a text that starts with FINAL_ANSWER: and holds a call later was parsed to
\* that call
C27_Witness ==
    /\ EmbeddedCallParsed
    /\ StartsWith(last_call.response_text, "FINAL_ANSWER:")
    /\ last_call.out.type = "function_call"
    /\ last_call.out.function = <<"a">>

\* C28: the decision on a mixed reply splits the call text on its first "|"
\* only: the function is the text before it, the params are the whole text
\* after it (empty without a "|"), and the output carries the note.
C28_CompositeSplitsOnFirstBar ==
    (/\ last_call.fn = "determine_next_action"
     /\ last_call.perception_response.type = "mixed")
    => LET function_call == last_call.perception_response.function_call
           bar == Find(function_call, "|")
       IN  /\ last_call.out.exc = "none"
           /\ last_call.out.function =
                Strip(IF bar = 0 THEN function_call ELSE SubSeq(function_call, 1, bar - 1))
           /\ last_call.out.params =
                PStr(IF bar = 0 THEN <<>> ELSE Strip(From(function_call, bar + 1)))
           /\ "thinking" \in DOMAIN last_call.out
           /\ last_call.out.thinking = last_call.perception_response.thinking

----------------------------------------------------------------------------
(* The memory grows, and the decision leaves it alone *)

\* s is a prefix of t
IsPrefix(s, t) == Len(s) <= Len(t) /\ SubSeq(t, 1, Len(s)) = s

----------------------------------------------------------------------------
(* The scraping tools: InstagramTools.user_info_by_username *)

\* what a call of the instagrapi client does
ClientOutcomes == {"ok", "LoginRequired", "UserNotFound", "ClientError"}

\* the behaviour of the client during one fetch: the two user_info_by_username
\* calls (first attempt, retry), the user_id_from_username call of each attempt
\* and the one after a re-login, configure(), and _calculate_engagement_rate
Clients ==
    [info1 : ClientOutcomes, info2 : ClientOutcomes,
     id1 : ClientOutcomes, id2 : ClientOutcomes, id_retry : ClientOutcomes,
     configure : {"ok", "Exception"}, engagement : {"ok", "Exception"}]

\* InstagramTools.user_id_by_username, first being the outcome of its first
\* client call: a login failure is retried once after configure(), every other
\* failure and every failure of the retry is raised again
user_id_by_username(first, client) ==
    IF first = "ok" THEN Ok(JStr)
    ELSE IF first # "LoginRequired" THEN Raise(first)
    ELSE IF client.configure # "ok" THEN Raise(client.configure)
    ELSE IF client.id_retry = "ok" THEN Ok(JStr)
    ELSE Raise(client.id_retry)

\* the metrics dict of a successful attempt
FetchedMetrics(username, client) ==
    IF client.engagement = "ok" THEN Profile(username)
    ELSE [Profile(username) EXCEPT !.engagement_rate = 0]

\* one attempt: client.user_info_by_username, user_id_by_username, the metrics
FetchAttempt(username, info, id, client) ==
    IF info # "ok" THEN Raise(info)
    ELSE LET user_id == user_id_by_username(id, client)
         IN  IF user_id.exc # "none" THEN Raise(user_id.exc)
             ELSE Ok(JDict(FetchedMetrics(username, client)))

\* a fetch whose retry lets its failure out
InstagramTools_user_info_by_username_RetryRaises(username, client) ==
    LET first == FetchAttempt(username, client.info1, client.id1, client)
    IN  IF first.exc = "none" THEN first
        ELSE IF first.exc = "LoginRequired"
        THEN IF client.configure # "ok" THEN Raise(client.configure)
             ELSE FetchAttempt(username, client.info2, client.id2, client)
        ELSE Ok(JDict(Placeholder(username)))

\* InstagramTools.user_info_by_username(username)
InstagramTools_user_info_by_username(username, client) ==
    LET first == FetchAttempt(username, client.info1, client.id1, client)
        retry == FetchAttempt(username, client.info2, client.id2, client)
    IN  IF first.exc = "none" THEN first
        ELSE IF first.exc = "LoginRequired"
        THEN IF client.configure = "ok" /\ retry.exc = "none"
             THEN retry
             ELSE Ok(JDict(Placeholder(username)))
        ELSE Ok(JDict(Placeholder(username)))

----------------------------------------------------------------------------
(* The action layer: calculate_user_score, rank_users, execute_function *)

\* action.calculate_user_score(metrics): a record with an error is returned as
\* it is
calculate_user_score(metrics) ==
    IF metrics.t # "dict" THEN Raise("TypeError")
    ELSE IF "error" \in DOMAIN metrics.d THEN Ok(metrics)
    ELSE IF ~(MetricKeys \subseteq DOMAIN metrics.d) THEN Raise("KeyError")
    ELSE Ok(JDict(SetKey(metrics.d, "score", WeightedScore(metrics.d))))

\* a ranking that sorts the list taken back to front
rank_users_Unstable(users_list) ==
    CASE users_list.t = "list" ->
            Ok(JList(SortedByScore([i \in 1..Len(users_list.l) |->
                                       users_list.l[Len(users_list.l) + 1 - i]])))
      [] users_list.t = "dict" ->
            IF DOMAIN users_list.d = {} THEN Ok(JList(<<>>)) ELSE Raise("AttributeError")
      [] OTHER -> Raise("TypeError")

\* action.rank_users(users_list)
rank_users(users_list) ==
    CASE users_list.t = "list" -> Ok(JList(SortedByScore(users_list.l)))
      [] users_list.t = "dict" ->
            IF DOMAIN users_list.d = {} THEN Ok(JList(<<>>)) ELSE Raise("AttributeError")
      [] OTHER -> Raise("TypeError")

\* json.loads(params) if isinstance(params, str) else params
LoadParams(params) ==
    CASE params.t = "str" -> json_loads(params.s)
      [] params.t = "dict" -> Ok(JDict(params.d))
      [] OTHER -> Ok(JNone)

\* the body of the try block of execute_function
ExecuteBody(function_name, params, client) ==
    CASE function_name = "get_user_metrics" ->
            IF params.t = "str"
            THEN InstagramTools_user_info_by_username(StrOf(params.s), client)
            ELSE IF params.t = "dict"
            THEN InstagramTools_user_info_by_username(Get(params.d, "username", "None"),
                                                      client)
            ELSE Raise("AttributeError")
      [] function_name = "calculate_user_score" ->
            LET metrics == LoadParams(params)
            IN  IF metrics.exc # "none" THEN metrics ELSE calculate_user_score(metrics.v)
      [] function_name = "rank_users" ->
            LET users_list == LoadParams(params)
            IN  IF users_list.exc # "none" THEN users_list ELSE rank_users(users_list.v)
      [] OTHER -> Ok(JDict([error |-> "Unknown function"]))

\* an execute_function without the except clause
execute_function_Propagates(function_name, params, client) ==
    ExecuteBody(function_name, params, client)

\* action.execute_function(function_name, params)
execute_function(function_name, params, client) ==
    LET outcome == ExecuteBody(function_name, params, client)
    IN  IF outcome.exc = "none" THEN outcome
        ELSE Ok(JDict([error |-> outcome.exc, function |-> function_name]))

----------------------------------------------------------------------------
(* Observed calls of the tools and of the action layer *)

\* the metrics handed to calculate_user_score: counts and rates of either sign,
\* with and without an error, and one without its counts
ScoredMetrics ==
    {[username |-> "a", followers_count |-> f, engagement_rate |-> e, media_count |-> m] :
        f \in {-1000, 0, 5000, 20000}, e \in {-100, 0, 300, 1250}, m \in {-5, 0, 20, 250}}
    \cup {Placeholder("a"), Placeholder("b"), [username |-> "a"],
          SetKey(Profile("a"), "error", "stale")}

\* the records handed to rank_users
RankRecords ==
    {[username |-> "a", score |-> 3700], [username |-> "b", score |-> 3700],
     [username |-> "c", score |-> 6048], [username |-> "d", score |-> 0],
     [username |-> "e"]}

\* the lists of n records handed to rank_users
RankLists(n) == [1..n -> RankRecords]

\* the names and params handed to execute_function
FunctionNames == {"get_user_metrics", "calculate_user_score", "rank_users", "post_story", ""}
FunctionParams ==
    {PStr(<<t>>) : t \in {"a", "oops", "J_a", "J_a_error", "J_partial", "J_num",
                          "J_list_ab", "J_list_partial"}}
    \cup {PStr(<<>>), PDict(Profile("a")), PDict(Placeholder("b")),
          PDict([username |-> "a"]), PDict(<<>>), PNone}

\* the clients execute_function meets
SomeClients ==
    {client \in Clients :
        /\ client.id1 = "ok" /\ client.id2 = "ok" /\ client.id_retry = "ok"
        /\ client.engagement = "ok"}

\* InstagramTools.user_info_by_username(username), observed
Call_user_info_by_username(username, client) ==
    /\ pc = "memory"
    /\ last_call' = [fn |-> "user_info_by_username", username |-> username,
                     client |-> client,
                     out |-> InstagramTools_user_info_by_username(username, client)]
    /\ UNCHANGED <<memVars, agentVars>>

\* calculate_user_score(metrics) of action.py and of insta_agent.py, observed
Call_calculate_user_score(metrics) ==
    /\ pc = "memory"
    /\ last_call' = [fn |-> "calculate_user_score", metrics |-> metrics,
                     out |-> calculate_user_score(JDict(metrics)),
                     agent_out |-> agent_calculate_user_score(JDict(metrics))]
    /\ UNCHANGED <<memVars, agentVars>>

\* rank_users(users_list) of action.py and of insta_agent.py, observed
Call_rank_users(users_list) ==
    /\ pc = "memory"
    /\ last_call' = [fn |-> "rank_users", users_list |-> users_list,
                     out |-> rank_users(JList(users_list)),
                     agent_out |-> agent_rank_users(JList(users_list))]
    /\ UNCHANGED <<memVars, agentVars>>

\* execute_function(function_name, params), observed
Call_execute_function(function_name, params, client) ==
    /\ pc = "memory"
    /\ last_call' = [fn |-> "execute_function", function_name |-> function_name,
                     params |-> params, client |-> client,
                     out |-> execute_function(function_name, params, client)]
    /\ UNCHANGED <<memVars, agentVars>>

\* one observed call of a tool or of an action-layer function; nothing follows
ActionNext ==
    \/ /\ last_call = NoCall
       /\ \E username \in Usernames, client \in Clients :
                Call_user_info_by_username(username, client)
    \/ /\ last_call = NoCall
       /\ \E metrics \in ScoredMetrics : Call_calculate_user_score(metrics)
    \/ /\ last_call = NoCall
       /\ \E n \in 0..MaxRankLen : \E users_list \in RankLists(n) :
                Call_rank_users(users_list)
    \/ /\ last_call = NoCall
       /\ \E function_name \in FunctionNames, params \in FunctionParams,
             client \in SomeClients :
                Call_execute_function(function_name, params, client)

SpecAction == MemInit /\ [][ActionNext]_vars

----------------------------------------------------------------------------
(* Claims about the tools and the action layer, checked under SpecAction *)

\* the params decode to, or are, a value calculate_user_score cannot score
Unscorable(params) ==
    \/ params.t = "str" /\ json_loads(params.s).exc # "none"
    \/ params.t = "str" /\ json_loads(params.s).exc = "none"
         /\ json_loads(params.s).v.t = "dict"
         /\ "error" \notin DOMAIN json_loads(params.s).v.d
         /\ "followers_count" \notin DOMAIN json_loads(params.s).v.d
    \/ params.t = "dict" /\ "error" \notin DOMAIN params.d
         /\ "followers_count" \notin DOMAIN params.d

\* C22: execute_function never raises: an unknown function name gets a result
\* with an error field, and so does every exception of a known function
\* (undecodable params, missing metric fields, a failed fetch).
C22_ExecuteNeverRaises ==
    last_call.fn = "execute_function"
    => /\ last_call.out.exc = "none"
       /\ last_call.function_name
              \notin {"get_user_metrics", "calculate_user_score", "rank_users"}
          => "error" \in DOMAIN last_call.out.v.d
       /\ (last_call.function_name = "calculate_user_score" /\ Unscorable(last_call.params))
          => "error" \in DOMAIN last_call.out.v.d
       /\ (/\ last_call.function_name = "rank_users"
           /\ last_call.params.t = "str"
           /\ json_loads(last_call.params.s).exc # "none")
          => "error" \in DOMAIN last_call.out.v.d
       /\ (/\ last_call.function_name = "get_user_metrics"
           /\ last_call.params.t \in {"str", "dict"}
           /\ last_call.client.info1 \in {"UserNotFound", "ClientError"})
          => "error" \in DOMAIN last_call.out.v.d

\* a known function raised on params that lack the metric fields, and the
\* result carries the error
C22_Witness ==
    /\ last_call.fn = "execute_function"
    /\ last_call.function_name = "calculate_user_score"
    /\ last_call.params = PStr(<<"J_partial">>)
    /\ last_call.out = Ok(JDict([error |-> "KeyError",
                                 function |-> "calculate_user_score"]))

\* C23: the score of a record without an error lies in [0, 100] (0..10000
\* hundredths).
C23_ScoreInRange ==
    (/\ last_call.fn = "calculate_user_score"
     /\ "error" \notin DOMAIN last_call.metrics
     /\ MetricKeys \subseteq DOMAIN last_call.metrics)
    => /\ last_call.out.exc = "none"
       /\ last_call.out.v.d.score >= 0
       /\ last_call.out.v.d.score <= 10000

\* C24: scoring a record that carries an error returns that record unchanged,
\* in action.py and in insta_agent.py alike.
C24_ErrorRecordUnchanged ==
    (/\ last_call.fn = "calculate_user_score"
     /\ "error" \in DOMAIN last_call.metrics)
    => /\ last_call.out = Ok(JDict(last_call.metrics))
       /\ last_call.agent_out = Ok(JDict(last_call.metrics))

\* p maps the positions of the ranked list to the positions of the list
\* ranked, one to one
IsRearrangement(p, n) ==
    /\ \A i \in 1..n : p[i] \in 1..n
    /\ \A i, j \in 1..n : i # j => p[i] # p[j]

\* C25: rank_users is a stable sort by score, highest first, a missing score
\* counting 0: the result is a permutation of the list, its scores do not
\* increase, records of equal score keep their order, and ranking the result
\* again changes nothing.
C25_RankIsStableSort ==
    last_call.fn = "rank_users"
    => LET L == last_call.users_list
           n == Len(L)
           R == last_call.out.v.l
       IN  /\ last_call.out.exc = "none"
           /\ last_call.agent_out = last_call.out
           /\ Len(R) = n
           /\ \A i \in 1..(n - 1) : Get(R[i], "score", 0) >= Get(R[i + 1], "score", 0)
           /\ \E p \in [1..n -> 1..n] :
                /\ IsRearrangement(p, n)
                /\ \A i \in 1..n : R[i] = L[p[i]]
                /\ \A i, j \in 1..n :
                      (i < j /\ Get(R[i], "score", 0) = Get(R[j], "score", 0))
                      => p[i] < p[j]
           /\ rank_users(last_call.out.v) = last_call.out

\* a list with two records of equal score behind a lower one was ranked
C25_Witness ==
    /\ last_call.fn = "rank_users"
    /\ last_call.users_list = <<[username |-> "e"], [username |-> "b", score |-> 3700],
                                [username |-> "a", score |-> 3700]>>
    /\ last_call.out.v.l = <<[username |-> "b", score |-> 3700],
                             [username |-> "a", score |-> 3700], [username |-> "e"]>>

\* the metric fields of the record are all zero
Zeroed(d) ==
    /\ d.followers_count = 0 /\ d.following_count = 0 /\ d.media_count = 0
    /\ d.engagement_rate = 0

\* C26: user_info_by_username never raises: it returns a record with the
\* identifier asked for, and after a failure of the client (login required
\* twice, not found, any other error) that record has zeroed metrics and an
\* error.
C26_FetchNeverRaises ==
    last_call.fn = "user_info_by_username"
    => LET client == last_call.client
           record == last_call.out.v.d
       IN  /\ last_call.out.exc = "none"
           /\ last_call.out.v.t = "dict"
           /\ record.username = last_call.username
           /\ "error" \in DOMAIN record => Zeroed(record)
           /\ (\/ client.info1 \in {"UserNotFound", "ClientError"}
               \/ client.info1 = "LoginRequired" /\ client.info2 # "ok"
               \/ client.info1 = "LoginRequired" /\ client.configure # "ok"
               \/ client.info1 = "ok" /\ client.id1 \in {"UserNotFound", "ClientError"})
              => "error" \in DOMAIN record /\ Zeroed(record)

\* the client asked for a login on the first attempt and again on the retry,
\* and the placeholder was returned
C26_Witness ==
    /\ last_call.fn = "user_info_by_username"
    /\ last_call.client.info1 = "LoginRequired"
    /\ last_call.client.configure = "ok"
    /\ last_call.client.info2 = "LoginRequired"
    /\ last_call.out = Ok(JDict(Placeholder(last_call.username)))

====
